---- MODULE Spec2Model ----
(***************************************************************************)
(* AtomicJsonStorage (multi-agent-main/app/services/storage.py): JSON      *)
(* documents in one data directory, every operation wrapped in _file_lock, *)
(* a flock on the sibling file "<name>.lock" which the release removes.    *)
(*                                                                         *)
(* The data directory is modelled as a map from paths to inodes; a flock   *)
(* belongs to an inode (not to a path), and every open() of a caller is    *)
(* its own open file description, so two threads of one process exclude    *)
(* each other exactly as two processes do.                                 *)
(***************************************************************************)
EXTENDS Integers, Sequences, FiniteSets, TLC

\* ------------------------------------------------------------------ bounds
\* Concurrent callers (threads or processes) sharing the data directory.
NumCallers == 2
\* Calls of read_json / write_json / update_json made in a run.
MaxCalls == 2
\* Largest integer value a caller passes inside a document.
MaxVal == 1

\* `timeout = 10` of _file_lock: the number of failed flock attempts after
\* which the acquisition gives up.
timeout == 10

Callers == 1..NumCallers
NoCaller == 0

\* Document names in use, and the keys their mappings may hold.  Names is
\* the document most specifications work on, AllNames adds a second one.
Names == {"t.json"}
AllNames == Names \cup {"u.json"}
KeySeq == <<"a", "counter">>
Keys == {KeySeq[i] : i \in 1..Len(KeySeq)}

\* A Python value json cannot encode (a set, a datetime, ...).
Unserializable == -1
\* uuid.uuid4() of the conversation service: the identifier made in a call
\* is the number of that call, so no two calls make the same one.
MaxId == MaxCalls + 1
Ids == 1..MaxId

\* A conversation's "messages" list is kept as one integer: 0 is [], and
\* appending the message m to the list l gives l * MsgBase + m.
MsgBase == MaxId + 1
AppendMsg(l, m) == l * MsgBase + m

\* The integers that can appear in a persisted document: the counters of
\* the tests, the lists of up to two messages.
MaxCounter == MaxVal + MaxCalls + 1
MaxInt == IF MsgBase * MsgBase - 1 > MaxCounter
          THEN MsgBase * MsgBase - 1 ELSE MaxCounter
Ints == 0..MaxInt

\* ------------------------------------------------------------- documents
\* A document value is a mapping from string keys to values.
EmptyDoc == [k \in {} |-> 0]
DocsOver(V) == UNION {[K -> V] : K \in SUBSET Keys}

\* Python's None, which is no mapping: kept apart from every mapping by a
\* key no document has.
None == [k \in {"None"} |-> 0]
IsMapping(v) == v # None

\* ------------------------------------------------------------ the codec
Digit == <<"0", "1", "2", "3", "4", "5", "6", "7", "8", "9">>

\* The decimal text of a non-negative integer, as json.dump writes it.
RECURSIVE IntStr(_)
IntStr(n) == IF n < 10 THEN Digit[n + 1]
             ELSE IntStr(n \div 10) \o Digit[(n % 10) + 1]

\* A string key as json.dump writes it: in double quotes.
Quote(k) == "\"" \o k \o "\""

\* The keys of the conversation service's documents: conversation ids in
\* conversations.json, user ids in users.json.
IdKey(i) == "conv-" \o IntStr(i)
UserSeq == <<"test-user", "other-user">>
UserIds == {UserSeq[i] : i \in 1..Len(UserSeq)}
AllKeySeq == KeySeq \o [i \in Ids |-> IdKey(i)] \o UserSeq
AllKeys == {AllKeySeq[i] : i \in 1..Len(AllKeySeq)}

IsKeyTok(t) == \E k \in AllKeys : Quote(k) = t
Unquote(t) == CHOOSE k \in AllKeys : Quote(k) = t
IsNumTok(t) == \E n \in Ints : IntStr(n) = t
ParseInt(t) == CHOOSE n \in Ints : IntStr(n) = t

\* The keys of d in iteration order.
RECURSIVE KeysFrom(_, _)
KeysFrom(d, i) ==
    IF i > Len(AllKeySeq) THEN <<>>
    ELSE (IF AllKeySeq[i] \in DOMAIN d THEN <<AllKeySeq[i]>> ELSE <<>>)
         \o KeysFrom(d, i + 1)

\* json.dump(data, f, indent=2): the chunks iterencode yields for the
\* members ks[i..] of d (white space left out).  A value json cannot encode
\* raises TypeError after the chunks before it were written:
\* [toks |-> what was written, ok |-> whether the encoding completed].
RECURSIVE EncodeMembers(_, _, _)
EncodeMembers(d, ks, i) ==
    IF i > Len(ks) THEN [toks |-> <<"}">>, ok |-> TRUE]
    ELSE LET sep == IF i = 1 THEN <<>> ELSE <<",">>
             head == sep \o <<Quote(ks[i]), ":">>
         IN  IF d[ks[i]] = Unserializable
             THEN [toks |-> head, ok |-> FALSE]
             ELSE LET rest == EncodeMembers(d, ks, i + 1)
                  IN  [toks |-> head \o <<IntStr(d[ks[i]])>> \o rest.toks,
                       ok |-> rest.ok]

\* A json.dump that leaves out the "," between members.
EncodeNoSeparator(d) ==
    LET m == EncodeMembers(d, KeysFrom(d, 1), 1)
    IN  [toks |-> <<"{">> \o SelectSeq(m.toks, LAMBDA t : t # ","),
         ok |-> m.ok]

\* json.dump(data, f, ...): None is written as null, a mapping as an
\* object.
Encode(d) ==
    IF d = None THEN [toks |-> <<"null">>, ok |-> TRUE]
    ELSE LET m == EncodeMembers(d, KeysFrom(d, 1), 1)
         IN  [toks |-> <<"{">> \o m.toks, ok |-> m.ok]

DecodeError == [ok |-> FALSE, value |-> EmptyDoc]
Decoded(d) == [ok |-> TRUE, value |-> d]

\* The members of a JSON object from position i (a key is expected there);
\* acc holds the members read so far, a repeated key keeps its last value.
\* Anything after the closing brace is "Extra data".
RECURSIVE DecodeMembers(_, _, _)
DecodeMembers(toks, i, acc) ==
    IF i + 3 > Len(toks) THEN DecodeError
    ELSE IF ~IsKeyTok(toks[i]) \/ toks[i + 1] # ":" \/ ~IsNumTok(toks[i + 2])
    THEN DecodeError
    ELSE LET k == Unquote(toks[i])
             v == ParseInt(toks[i + 2])
             acc2 == [x \in DOMAIN acc \cup {k} |-> IF x = k THEN v ELSE acc[x]]
         IN  IF toks[i + 3] = "}"
             THEN (IF i + 3 = Len(toks) THEN Decoded(acc2) ELSE DecodeError)
             ELSE IF toks[i + 3] = ","
             THEN DecodeMembers(toks, i + 4, acc2)
             ELSE DecodeError

\* A load that swallows the decode error and yields {} instead.
DecodeLenient(toks) ==
    IF Len(toks) >= 2 /\ toks[1] = "{" /\ toks[2] # "}"
       /\ DecodeMembers(toks, 2, EmptyDoc).ok
    THEN DecodeMembers(toks, 2, EmptyDoc)
    ELSE Decoded(EmptyDoc)

\* json.load(f) of a file holding toks: the value, or JSONDecodeError (an
\* empty file is not JSON).  The top-level values are objects and null.
Decode(toks) ==
    IF toks = <<"null">> THEN Decoded(None)
    ELSE IF Len(toks) < 2 \/ toks[1] # "{" THEN DecodeError
    ELSE IF toks[2] = "}"
    THEN (IF Len(toks) = 2 THEN Decoded(EmptyDoc) ELSE DecodeError)
    ELSE DecodeMembers(toks, 2, EmptyDoc)

\* ------------------------------------------------------- Python results
\* What a call hands to its caller: a returned value or a raised exception.
NoResult == [kind |-> "none", value |-> EmptyDoc]
Returned(d) == [kind |-> "ok", value |-> d]
Raised(e) == [kind |-> e, value |-> EmptyDoc]

\* IOError("Could not acquire file lock"), the lock-timeout error.
LockTimeout == "IOError: Could not acquire file lock"
JSONDecodeError == "JSONDecodeError"
FileNotFoundError == "FileNotFoundError"
TypeError == "TypeError"
KeyError == "KeyError"
\* Not an exception: the caller's process was terminated during the call.
ProcessKilled == "killed"

\* --------------------------------------------------- caller transforms
\* increment_counter of the tests: data["counter"] += 1; return data.
\* A mapping without "counter" raises KeyError inside the transform.
Transforms == {"increment_counter"}

\* add_item of the tests, the list data["items"] kept as the number of its
\* items under the key "a": an absent list starts empty, one item is
\* appended.  It raises on no mapping a document can hold.
add_item(d) ==
    [k \in DOMAIN d \cup {"a"} |->
        IF k # "a" THEN d[k]
        ELSE IF "a" \in DOMAIN d THEN d["a"] + 1 ELSE 1]

\* ------------------------------------------- the conversation service
\* ConversationService keeps its documents in the store; every method
\* hands update_json a local function that captures the method's
\* arguments.  Such a closure is named by the method and what it captured:
\* the conversation (or the user's place in UserSeq) and the message (or
\* the user data, 0 for none).
CONVERSATIONS_FILE == "conversations.json"
USERS_FILE == "users.json"
ServiceMethods == {"create_conversation", "add_message",
                   "delete_conversation", "ensure_user"}
Closure(method, i, m) ==
    method \o "(" \o IntStr(i) \o "," \o IntStr(m) \o ")"
ClosureArgs == ServiceMethods \X Ids \X (0..MaxId)
IsClosure(t) == \E a \in ClosureArgs : Closure(a[1], a[2], a[3]) = t
ClosureOf(t) == CHOOSE a \in ClosureArgs : Closure(a[1], a[2], a[3]) = t

\* The mapping d with the key k set to v.
With(d, k, v) == [x \in DOMAIN d \cup {k} |-> IF x = k THEN v ELSE d[x]]
\* The mapping d without the key k.
Without(d, k) == [x \in DOMAIN d \ {k} |-> d[x]]

\* The documents of the service are kept one level down: d stands for
\* data["conversations"] (data["users"]), an absent key for an empty one.
\* create_conversation.update_conversations: the new conversation, whose
\* messages list is empty, is stored under its id.
update_conversations(d, i) == With(d, IdKey(i), 0)

\* add_message.update_conversation: data is returned as it is when the
\* conversation is not there, else the message is appended to its list.
update_conversation(d, i, m) ==
    IF IdKey(i) \notin DOMAIN d THEN d
    ELSE With(d, IdKey(i), AppendMsg(d[IdKey(i)], m))

\* delete_conversation.update_conversations: del when it is there.
delete_conversations(d, i) == Without(d, IdKey(i))

\* An ensure_user that stores what it is given over the record it finds.
OverwriteUser(d, j, x) == With(d, UserSeq[j], x)

\* ensure_user.update_users: the record is created only when the user is
\* not there.
update_users(d, j, x) ==
    IF UserSeq[j] \in DOMAIN d THEN d ELSE With(d, UserSeq[j], x)

ServiceApply(a, d) ==
    IF a[1] = "create_conversation" THEN update_conversations(d, a[2])
    ELSE IF a[1] = "add_message" THEN update_conversation(d, a[2], a[3])
    ELSE IF a[1] = "delete_conversation" THEN delete_conversations(d, a[2])
    ELSE update_users(d, a[2], a[3])

\* update_func(data): [ok |-> whether it returned, value |-> what it
\* returned].  "returns_none" is a transform that changes nothing and has
\* no return statement; the two others raise on None (TypeError) as
\* increment_counter does on a mapping without "counter".
Apply(t, d) ==
    IF t = "returns_none" THEN [ok |-> TRUE, value |-> None]
    ELSE IF ~IsMapping(d) THEN [ok |-> FALSE, value |-> d]
    ELSE IF IsClosure(t)
    THEN [ok |-> TRUE, value |-> ServiceApply(ClosureOf(t), d)]
    ELSE IF t = "add_item" THEN [ok |-> TRUE, value |-> add_item(d)]
    ELSE IF "counter" \in DOMAIN d
    THEN [ok |-> TRUE, value |-> [d EXCEPT !["counter"] = @ + 1]]
    ELSE [ok |-> FALSE, value |-> d]

\* ------------------------------------------------------ the file system
\* A _get_file_path that returns the path of the lock file.
PathOfLockFile(filename) == filename \o ".lock"

_get_file_path(filename) == filename

\* A store with one lock file for all its documents.
StoreLockPath(filename) == ".lock"

_get_lock_path(filename) == filename \o ".lock"

\* Document names that are the lock path of another document.
LockLikeNames == {_get_lock_path(n) : n \in Names}

StoreNames == AllNames \cup {CONVERSATIONS_FILE, USERS_FILE} \cup LockLikeNames
Paths == StoreNames \cup {_get_lock_path(n) : n \in StoreNames}
NumInodes == Cardinality(Paths) + NumCallers
Inodes == 1..NumInodes
NoInode == 0

VARIABLES
    dir,          \* the data directory: path -> inode, NoInode when absent
    content,      \* inode -> the tokens the file holds
    flock,        \* inode -> the caller whose descriptor holds LOCK_EX on it
    pc,           \* caller -> where it is in its call
    op,           \* caller -> the call it is making (or made last)
    calls,        \* number of calls started so far
    lock_file,    \* caller -> inode of its open lock_file, NoInode if none
    retry_count,  \* caller -> failed flock attempts of this acquisition
    f,            \* caller -> inode of the data file it has open for writing
    data,         \* caller -> the mapping it loaded / the transform returned
    result,       \* caller -> what its call returned or raised
    wrote,        \* caller -> whether this call opened the document to write
    before,       \* caller -> the document's file as it was when the call began
    prev,         \* caller -> the call it made before this one, and its result
    applied       \* caller -> how many times this call ran its transform

vars == <<dir, content, flock, pc, op, calls, lock_file, retry_count, f,
          data, result, wrote, before, prev, applied>>

\* os.path.exists(path)
exists(path) == dir[path] # NoInode

\* An inode no path names and no descriptor refers to.
InUse(i) == \/ \E p \in Paths : dir[p] = i
            \/ \E c \in Callers : lock_file[c] = i \/ f[c] = i
FreeInode == CHOOSE i \in Inodes :
                 /\ ~InUse(i)
                 /\ \A j \in Inodes : ~InUse(j) => i <= j

\* open(path, 'w'): creates the file when the path is absent, truncates it
\* otherwise; the descriptor refers to the inode the path names now.
OpenedW(path) == IF exists(path) THEN dir[path] ELSE FreeInode
\* An open that keeps what the file holds (mode 'r+').
ContentNotTruncated(path) == content

DirAfterOpenW(path) == [dir EXCEPT ![path] = OpenedW(path)]
ContentAfterOpenW(path) == [content EXCEPT ![OpenedW(path)] = <<>>]

\* f.write(text) through a descriptor opened with 'w' and never seeked: the
\* text lands at offset 0 and bytes of the file beyond it stay.
WriteAt0(old, new) ==
    IF Len(old) > Len(new) THEN new \o SubSeq(old, Len(new) + 1, Len(old))
    ELSE new

\* A release that leaves the lock file in the directory.
NotRemoved(d, path) == d

\* os.remove(path); the OSError of an absent path is ignored.
Removed(d, path) == [d EXCEPT ![path] = NoInode]

\* A flock that a lock held by another caller does not stop.
AlwaysFree(i, c) == TRUE

\* A flock whose first attempt of a call fails whoever holds the lock.
BusyAtFirstAttempt(i, c) == flock[i] \in {NoCaller, c} /\ retry_count[c] > 0

\* fcntl.flock(fd, LOCK_EX | LOCK_NB) succeeds unless another open file
\* description holds a lock on the same inode.
FlockFree(i, c) == flock[i] \in {NoCaller, c}

\* A release that neither unlocks nor closes.
StillLocked(fl, i, c) == fl

\* fcntl.flock(fd, LOCK_UN); lock_file.close(): c's lock on i is dropped.
Unlocked(fl, i, c) == IF fl[i] = c THEN [fl EXCEPT ![i] = NoCaller] ELSE fl

\* A lock that outlives the process that took it.
HeldAfterExit(fl, i, c) == fl

\* The flock of a process that ends without unlocking: the kernel closes
\* the descriptors of the process, and the lock goes with the last
\* descriptor of its open file description.
DroppedAtExit(fl, i, c) == Unlocked(fl, i, c)

\* A retry loop that runs once more: `while retry_count <= timeout`.
MayRetryOnceMore(n) == n <= timeout

\* `while retry_count < timeout`
MayRetry(n) == n < timeout

\* ------------------------------------------------------------ the calls
ReadOp(n) == [kind |-> "read_json", name |-> n, value |-> EmptyDoc,
              transform |-> ""]
WriteOp(n, v) == [kind |-> "write_json", name |-> n, value |-> v,
                  transform |-> ""]
UpdateOp(n, t) == [kind |-> "update_json", name |-> n, value |-> EmptyDoc,
                   transform |-> t]

NoOp == [kind |-> "none", name |-> "", value |-> EmptyDoc, transform |-> ""]

\* The file of a path as a caller could observe it: its inode and tokens.
FileAt(path) == [ino |-> dir[path],
                 toks |-> IF exists(path) THEN content[dir[path]] ELSE <<>>]

\* A body that opens the document for writing whatever the call is.
BodyStartsWithOpen(kind) == "open_w"

\* The first step of the body of `with self._file_lock(filename)`.
BodyStart(kind) == IF kind = "write_json" THEN "open_w" ELSE "exists"

Init ==
    /\ dir = [p \in Paths |-> NoInode]
    /\ content = [i \in Inodes |-> <<>>]
    /\ flock = [i \in Inodes |-> NoCaller]
    /\ pc = [c \in Callers |-> "idle"]
    /\ op = [c \in Callers |-> NoOp]
    /\ calls = 0
    /\ lock_file = [c \in Callers |-> NoInode]
    /\ retry_count = [c \in Callers |-> 0]
    /\ f = [c \in Callers |-> NoInode]
    /\ data = [c \in Callers |-> EmptyDoc]
    /\ result = [c \in Callers |-> NoResult]
    /\ wrote = [c \in Callers |-> FALSE]
    /\ before = [c \in Callers |-> [ino |-> NoInode, toks |-> <<>>]]
    /\ prev = [c \in Callers |-> [op |-> NoOp, result |-> NoResult]]
    /\ applied = [c \in Callers |-> 0]

\* A caller starts read_json / write_json / update_json: a new frame, whose
\* locals (retry_count = 0 among them) are fresh.
Enter(c, o) ==
    /\ pc[c] = "idle"
    /\ pc' = [pc EXCEPT ![c] = "open_lock"]
    /\ op' = [op EXCEPT ![c] = o]
    /\ calls' = calls + 1
    /\ retry_count' = [retry_count EXCEPT ![c] = 0]
    /\ data' = [data EXCEPT ![c] = EmptyDoc]
    /\ result' = [result EXCEPT ![c] = NoResult]
    /\ wrote' = [wrote EXCEPT ![c] = FALSE]
    /\ applied' = [applied EXCEPT ![c] = 0]
    /\ UNCHANGED <<dir, content, flock, lock_file, f>>

\* A call whose history nobody records.
Call(c, o) ==
    /\ Enter(c, o)
    /\ UNCHANGED <<before, prev>>

\* The same call, with what the caller could observe of the document when
\* the call began, and the call it made before, kept for comparison.
ObservedCall(c, o) ==
    /\ Enter(c, o)
    /\ before' = [before EXCEPT ![c] = FileAt(_get_file_path(o.name))]
    /\ prev' = [prev EXCEPT ![c] = [op |-> op[c], result |-> result[c]]]

\* _file_lock: lock_file = open(lock_path, 'w')
OpenLockFile(c) ==
    LET p == _get_lock_path(op[c].name) IN
    /\ pc[c] = "open_lock"
    /\ lock_file' = [lock_file EXCEPT ![c] = OpenedW(p)]
    /\ dir' = DirAfterOpenW(p)
    /\ content' = ContentAfterOpenW(p)
    /\ pc' = [pc EXCEPT ![c] = "flock"]
    /\ UNCHANGED <<flock, op, calls, retry_count, f, data, result, wrote,
                   before, prev, applied>>

\* A failed attempt that is not counted: the loop of a blocking wait.
BlockedAttempt(n) == n

\* except IOError: retry_count += 1; time.sleep(0.1)
FailedAttempt(n) == n + 1

\* _file_lock: one round of the retry loop.  While retry_count < timeout a
\* non-blocking flock is tried: success leaves the loop and the body of the
\* with statement starts; failure counts and sleeps.  Otherwise the else
\* branch raises IOError and the finally block runs.
\* A loop without its `else: raise`, which falls through to the body when
\* the attempts are exhausted.
GivesUpIntoBody(kind) == BodyStart(kind)

\* Where `raise IOError("Could not acquire file lock")` leads: out of the
\* `try`, into `finally`, whatever the call is.
AfterGivingUp(kind) == "unlock"

Acquire(c) ==
    /\ pc[c] = "flock"
    /\ IF MayRetry(retry_count[c])
       THEN IF FlockFree(lock_file[c], c)
            THEN /\ flock' = [flock EXCEPT ![lock_file[c]] = c]
                 /\ pc' = [pc EXCEPT ![c] = BodyStart(op[c].kind)]
                 /\ UNCHANGED <<retry_count, result>>
            ELSE /\ retry_count' = [retry_count EXCEPT ![c] =
                                       FailedAttempt(@)]
                 /\ UNCHANGED <<flock, pc, result>>
       ELSE /\ result' = [result EXCEPT ![c] = Raised(LockTimeout)]
            /\ pc' = [pc EXCEPT ![c] = AfterGivingUp(op[c].kind)]
            /\ UNCHANGED <<flock, retry_count>>
    /\ UNCHANGED <<dir, content, op, calls, lock_file, f, data, wrote, before,
                   prev, applied>>

\* An update_json that starts an absent document with one item.
SeededIfAbsent(kind) == [k \in {"a"} |-> 1]

\* update_json: `data = {}` when the document is absent.
DataIfAbsent(kind) == EmptyDoc

\* read_json / update_json: `if not os.path.exists(file_path)`.  read_json
\* returns {} for an absent file, update_json takes data = {}.
CheckExists(c) ==
    LET p == _get_file_path(op[c].name) IN
    /\ pc[c] = "exists"
    /\ IF exists(p)
       THEN /\ pc' = [pc EXCEPT ![c] = "load"]
            /\ UNCHANGED <<data, result>>
       ELSE IF op[c].kind = "read_json"
       THEN /\ result' = [result EXCEPT ![c] = Returned(EmptyDoc)]
            /\ pc' = [pc EXCEPT ![c] = "unlock"]
            /\ UNCHANGED data
       ELSE /\ data' = [data EXCEPT ![c] = DataIfAbsent(op[c].kind)]
            /\ pc' = [pc EXCEPT ![c] = "transform"]
            /\ UNCHANGED result
    /\ UNCHANGED <<dir, content, flock, op, calls, lock_file, retry_count, f,
                   wrote, before, prev, applied>>

\* A load that answers a decode error by resetting the document: the error
\* is noted and {} goes on to be persisted.
DecodeFailsAndResets(c) ==
    /\ result' = [result EXCEPT ![c] = Raised(JSONDecodeError)]
    /\ pc' = [pc EXCEPT ![c] = "open_w"]
    /\ data' = [data EXCEPT ![c] = EmptyDoc]

\* json.load raises json.JSONDecodeError: nothing in read_json or
\* update_json catches it, the rest of the body is skipped.
DecodeFails(c) ==
    /\ result' = [result EXCEPT ![c] = Raised(JSONDecodeError)]
    /\ pc' = [pc EXCEPT ![c] = "unlock"]
    /\ UNCHANGED data

\* read_json / update_json: `with open(file_path, 'r') as f: json.load(f)`.
Load(c) ==
    LET p == _get_file_path(op[c].name)
        r == Decode(content[dir[p]])
    IN
    /\ pc[c] = "load"
    /\ IF ~exists(p)
       THEN /\ result' = [result EXCEPT ![c] = Raised(FileNotFoundError)]
            /\ pc' = [pc EXCEPT ![c] = "unlock"]
            /\ UNCHANGED data
       ELSE IF ~r.ok
       THEN DecodeFails(c)
       ELSE IF op[c].kind = "read_json"
       THEN /\ result' = [result EXCEPT ![c] = Returned(r.value)]
            /\ pc' = [pc EXCEPT ![c] = "unlock"]
            /\ UNCHANGED data
       ELSE /\ data' = [data EXCEPT ![c] = r.value]
            /\ pc' = [pc EXCEPT ![c] = "transform"]
            /\ UNCHANGED result
    /\ UNCHANGED <<dir, content, flock, op, calls, lock_file, retry_count, f,
                   wrote, before, prev, applied>>

\* An update_json that persists data although update_func raised (the
\* write placed in a finally block).
TransformRaisesAndPersists(c) ==
    /\ result' = [result EXCEPT ![c] = Raised(KeyError)]
    /\ pc' = [pc EXCEPT ![c] = "open_w"]
    /\ UNCHANGED data

\* update_json when update_func raises: nothing in update_json catches it,
\* the exception leaves the with statement and the rest of the body is
\* skipped.
TransformRaises(c) ==
    /\ result' = [result EXCEPT ![c] = Raised(KeyError)]
    /\ pc' = [pc EXCEPT ![c] = "unlock"]
    /\ UNCHANGED data

\* An update_json that runs update_func on its own result again.
InvokedTwice(t, d, n) == [r |-> Apply(t, Apply(t, d).value), n |-> n + 2]

\* update_func(data), called by a frame that has called it n times.
Invocation(t, d, n) == [r |-> Apply(t, d), n |-> n + 1]

\* update_json: updated_data = update_func(data).  An exception of the
\* transform leaves the with statement (the finally block runs).
Transform(c) ==
    LET i == Invocation(op[c].transform, data[c], applied[c])
        r == i.r
    IN
    /\ pc[c] = "transform"
    /\ applied' = [applied EXCEPT ![c] = i.n]
    /\ IF r.ok
       THEN /\ data' = [data EXCEPT ![c] = r.value]
            /\ pc' = [pc EXCEPT ![c] = "open_w"]
            /\ UNCHANGED result
       ELSE TransformRaises(c)
    /\ UNCHANGED <<dir, content, flock, op, calls, lock_file, retry_count, f,
                   wrote, before, prev>>

\* write_json / update_json: `with open(file_path, 'w') as f`.
OpenDataFile(c) ==
    LET p == _get_file_path(op[c].name) IN
    /\ pc[c] = "open_w"
    /\ f' = [f EXCEPT ![c] = OpenedW(p)]
    /\ dir' = DirAfterOpenW(p)
    /\ content' = ContentAfterOpenW(p)
    /\ wrote' = [wrote EXCEPT ![c] = TRUE]
    /\ pc' = [pc EXCEPT ![c] = "dump"]
    /\ UNCHANGED <<flock, op, calls, lock_file, retry_count, data, result,
                   before, prev, applied>>

\* A persist that dumps the argument of the call, which update_json has
\* not.
PersistArgument(c) == op[c].value

\* What the call persists: the argument of write_json, updated_data of
\* update_json.
ToPersist(c) == IF op[c].kind = "write_json" THEN op[c].value ELSE data[c]

\* write_json / update_json: json.dump(..., f) and the close of f, which
\* flushes what was encoded (all of it, or the chunks before a TypeError).
\* write_json returns None, update_json returns updated_data.
Dump(c) ==
    LET e == Encode(ToPersist(c)) IN
    /\ pc[c] = "dump"
    /\ content' = [content EXCEPT ![f[c]] = WriteAt0(@, e.toks)]
    /\ f' = [f EXCEPT ![c] = NoInode]
    /\ result' = [result EXCEPT ![c] =
                    IF ~e.ok THEN Raised(TypeError)
                    ELSE IF op[c].kind = "write_json" THEN Returned(EmptyDoc)
                    ELSE Returned(data[c])]
    /\ pc' = [pc EXCEPT ![c] = "unlock"]
    /\ UNCHANGED <<dir, flock, op, calls, lock_file, retry_count, data, wrote,
                   before, prev, applied>>

\* The process of c is terminated while it persists: f is open for writing
\* and json.dump has not completed.  Of the text, the first k chunks have
\* reached the file (none of them when they were all still buffered); the
\* kernel closes the descriptors of the process, which drops its flock; the
\* finally block does not run and the lock file stays.
Crash(c) ==
    LET e == Encode(ToPersist(c)) IN
    /\ pc[c] = "dump"
    /\ \E k \in 0..(Len(e.toks) - 1) :
           content' = [content EXCEPT ![f[c]] =
                          WriteAt0(@, SubSeq(e.toks, 1, k))]
    /\ f' = [f EXCEPT ![c] = NoInode]
    /\ flock' = DroppedAtExit(flock, lock_file[c], c)
    /\ lock_file' = [lock_file EXCEPT ![c] = NoInode]
    /\ result' = [result EXCEPT ![c] = Raised(ProcessKilled)]
    /\ pc' = [pc EXCEPT ![c] = "idle"]
    /\ UNCHANGED <<dir, op, calls, retry_count, data, wrote, before, prev,
                   applied>>

\* The process of c is terminated elsewhere in the body of
\* `with self._file_lock(filename)`, before it has opened the document
\* for writing: the kernel closes its descriptors, which drops its flock;
\* the finally block does not run and the lock file stays.
Terminate(c) ==
    /\ pc[c] \in {"exists", "load", "transform", "open_w"}
    /\ f' = [f EXCEPT ![c] = NoInode]
    /\ flock' = DroppedAtExit(flock, lock_file[c], c)
    /\ lock_file' = [lock_file EXCEPT ![c] = NoInode]
    /\ result' = [result EXCEPT ![c] = Raised(ProcessKilled)]
    /\ pc' = [pc EXCEPT ![c] = "idle"]
    /\ UNCHANGED <<dir, content, op, calls, retry_count, data, wrote, before,
                   prev, applied>>

\* _file_lock, finally: fcntl.flock(fd, LOCK_UN); lock_file.close()
Unlock(c) ==
    /\ pc[c] = "unlock"
    /\ flock' = Unlocked(flock, lock_file[c], c)
    /\ lock_file' = [lock_file EXCEPT ![c] = NoInode]
    /\ pc' = [pc EXCEPT ![c] = "remove"]
    /\ UNCHANGED <<dir, content, op, calls, retry_count, f, data, result,
                   wrote, before, prev, applied>>

\* A release that lets the error of removing an absent file out.
RemoveRaises(r, d, path) ==
    IF d[path] = NoInode THEN Raised(FileNotFoundError) ELSE r

\* What the call hands to its caller after os.remove(lock_path) in
\* `try: ... except OSError: pass`: what it had before, r, the error of an
\* absent path being swallowed.
AfterRemove(r, d, path) == r

\* _file_lock, finally: os.remove(lock_path); then the call returns or
\* re-raises what result holds.
RemoveLockFile(c) ==
    LET p == _get_lock_path(op[c].name) IN
    /\ pc[c] = "remove"
    /\ dir' = Removed(dir, p)
    /\ result' = [result EXCEPT ![c] = AfterRemove(@, dir, p)]
    /\ pc' = [pc EXCEPT ![c] = "idle"]
    /\ UNCHANGED <<content, flock, op, calls, lock_file, retry_count, f, data,
                   wrote, before, prev, applied>>

Step(c) ==
    \/ OpenLockFile(c)
    \/ Acquire(c)
    \/ CheckExists(c)
    \/ Load(c)
    \/ Transform(c)
    \/ OpenDataFile(c)
    \/ Dump(c)
    \/ Unlock(c)
    \/ RemoveLockFile(c)

\* The calls concurrent callers make: the documents they write are the
\* counter of the tests and a mapping json cannot encode.
ConcurrentVals == {[k \in {"counter"} |-> 0],
                   [k \in {"a"} |-> Unserializable]}
ConcurrentOps ==
    {ReadOp(n) : n \in Names}
    \cup {WriteOp(n, v) : n \in Names, v \in ConcurrentVals}
    \cup {UpdateOp(n, t) : n \in Names, t \in Transforms}

\* Concurrent callers, MaxCalls calls in all.
Next ==
    \E c \in Callers :
        \/ calls < MaxCalls /\ \E o \in ConcurrentOps : Call(c, o)
        \/ Step(c)

Spec == Init /\ [][Next]_vars

\* Every caller makes one call, on documents json can encode, and goes on
\* trying as long as it is in the retry loop (its sleep of 0.1 s ends);
\* nothing makes the holder of a lock ever leave its critical section.
LiveOps ==
    {ReadOp(n) : n \in Names}
    \cup {WriteOp(n, [k \in {"counter"} |-> 0]) : n \in Names}
    \cup {UpdateOp(n, t) : n \in Names, t \in Transforms}
NextLive ==
    \E c \in Callers :
        \/ op[c] = NoOp /\ \E o \in LiveOps : Call(c, o)
        \/ Step(c)

SpecLive ==
    Init /\ [][NextLive]_vars /\ \A c \in Callers : WF_vars(Acquire(c))

\* The same callers on two documents, which they write and update.
TwoNameOps ==
    {WriteOp(n, [k \in {"counter"} |-> 0]) : n \in AllNames}
    \cup {UpdateOp(n, t) : n \in AllNames, t \in Transforms}
NextTwo ==
    \E c \in Callers :
        \/ calls < MaxCalls /\ \E o \in TwoNameOps : Call(c, o)
        \/ Step(c)

SpecTwo == Init /\ [][NextTwo]_vars

\* The same callers with one more call, enough for a third acquisition to
\* meet two earlier ones.
MoreCalls == MaxCalls + 1
NextRace ==
    \E c \in Callers :
        \/ calls < MoreCalls /\ \E o \in ConcurrentOps : ObservedCall(c, o)
        \/ Step(c)

SpecRace == Init /\ [][NextRace]_vars

\* One caller alone, making its calls one after the other, with every
\* document value as input.
InputVals == (0..MaxVal) \cup {Unserializable}
SeqTransforms == Transforms \cup {"add_item"}
SequentialOps ==
    {ReadOp(n) : n \in Names}
    \cup {WriteOp(n, v) : n \in Names, v \in DocsOver(InputVals)}
    \cup {UpdateOp(n, t) : n \in Names, t \in SeqTransforms}

NextSeq ==
    \/ calls < MoreCalls /\ \E o \in SequentialOps : ObservedCall(1, o)
    \/ Step(1)

SpecSeq == Init /\ [][NextSeq]_vars

\* What another program leaves in a document's file: nothing at all, text
\* that is not JSON, the beginning of an object.
RawContents == {<<>>, <<"not json">>, <<"{", Quote("a"), ":">>}

\* Between two calls another program writes raw straight into the file of
\* the document n (open(path, 'w'); write; close), behind the store's back.
Corrupt(n, raw) ==
    LET p == _get_file_path(n) IN
    /\ \A c \in Callers : pc[c] = "idle"
    /\ FileAt(p).toks # raw \/ ~exists(p)
    /\ dir' = DirAfterOpenW(p)
    /\ content' = [content EXCEPT ![OpenedW(p)] = raw]
    /\ UNCHANGED <<flock, pc, op, calls, lock_file, retry_count, f, data,
                   result, wrote, before, prev, applied>>

\* One caller alone, whose documents another program overwrites between
\* its calls.
NextCorrupt ==
    \/ calls < MoreCalls /\ \E o \in SequentialOps : ObservedCall(1, o)
    \/ Step(1)
    \/ \E n \in Names, raw \in RawContents : Corrupt(n, raw)

SpecCorrupt == Init /\ [][NextCorrupt]_vars

\* One caller alone whose arguments are any Python value: None as the data
\* of write_json, a transform that returns None.
AnyValueOps ==
    SequentialOps
    \cup {WriteOp(n, None) : n \in Names}
    \cup {UpdateOp(n, "returns_none") : n \in Names}

NextAny ==
    \/ calls < MoreCalls /\ \E o \in AnyValueOps : ObservedCall(1, o)
    \/ Step(1)

SpecAny == Init /\ [][NextAny]_vars

\* One caller alone whose process may be terminated while it persists; the
\* calls that follow are those of the process started anew.
NextCrash ==
    \/ calls < MoreCalls /\ \E o \in SequentialOps : ObservedCall(1, o)
    \/ Step(1)
    \/ Crash(1)

SpecCrash == Init /\ [][NextCrash]_vars

\* Two calls, that of a holder and that of another caller, made by callers
\* in processes of their own, either of which may be terminated inside
\* its critical section; a process that is not terminated goes on running.
KillCalls == 2
NextKill ==
    \E c \in Callers :
        \/ /\ calls < KillCalls /\ op[c] = NoOp
           /\ \E o \in LiveOps : Call(c, o)
        \/ Step(c)
        \/ Crash(c)
        \/ Terminate(c)

SpecKill ==
    Init /\ [][NextKill]_vars /\ \A c \in Callers : WF_vars(Step(c))

\* A transform that itself calls the store: update_func runs in the frame
\* of update_json, the call it makes in a frame of its own, with an open
\* lock file of its own, in the same thread.  Outer is the frame of
\* update_json, Nested that of the call its transform makes.
Outer == 1
Nested == 2
reenter == "reenter"

NestedOps ==
    {ReadOp(n) : n \in AllNames}
    \cup {WriteOp(n, [k \in {"counter"} |-> 0]) : n \in AllNames}
    \cup {UpdateOp(n, t) : n \in AllNames, t \in Transforms}

\* update_func(data) is entered and makes its call of the store.
ReenterCall ==
    /\ pc[Outer] = "transform" /\ op[Outer].transform = reenter
    /\ op[Nested] = NoOp
    /\ \E o \in NestedOps : Call(Nested, o)

\* The call of the transform is over: what it raised leaves update_func
\* and the with statement of update_json; when it returned, update_func
\* returns data as it got it.
ReenterReturn ==
    /\ pc[Outer] = "transform" /\ op[Outer].transform = reenter
    /\ pc[Nested] = "idle" /\ op[Nested] # NoOp
    /\ applied' = [applied EXCEPT ![Outer] = @ + 1]
    /\ IF result[Nested].kind = "ok"
       THEN /\ pc' = [pc EXCEPT ![Outer] = "open_w"]
            /\ UNCHANGED result
       ELSE /\ pc' = [pc EXCEPT ![Outer] = "unlock"]
            /\ result' = [result EXCEPT ![Outer] = result[Nested]]
    /\ UNCHANGED <<dir, content, flock, op, calls, lock_file, retry_count, f,
                   data, wrote, before, prev>>

OuterOps ==
    {WriteOp(n, [k \in {"counter"} |-> 0]) : n \in AllNames}
    \cup {UpdateOp(n, reenter) : n \in AllNames}

\* One thread: calls of the store one after the other, the transform of an
\* update_json making one call of the store; the thread keeps running.
NextNested ==
    \/ /\ calls < MaxCalls /\ op[Nested] = NoOp
       /\ \E o \in OuterOps : ObservedCall(Outer, o)
    \/ op[Outer].transform # reenter /\ Step(Outer)
    \/ pc[Outer] # "transform" /\ Step(Outer)
    \/ ReenterCall
    \/ Step(Nested)
    \/ ReenterReturn

SpecNested == Init /\ [][NextNested]_vars /\ WF_vars(NextNested)

\* test_concurrent_access_simulation: update_json(filename, add_item) again
\* and again on a document that starts absent, the callers taking turns,
\* one call at a time.
NextFold ==
    \/ /\ calls < MoreCalls
       /\ \A c \in Callers : pc[c] = "idle"
       /\ \E c \in Callers, n \in Names :
              ObservedCall(c, UpdateOp(n, "add_item"))
    \/ \E c \in Callers : Step(c)

SpecFold == Init /\ [][NextFold]_vars

\* One caller alone on two documents of one directory, the name of one
\* being the name of the other followed by ".lock".
CollidingNames == Names \cup LockLikeNames
CollidingOps ==
    {ReadOp(n) : n \in CollidingNames}
    \cup {WriteOp(n, [k \in {"counter"} |-> 0]) : n \in CollidingNames}
    \cup {UpdateOp(n, t) : n \in CollidingNames, t \in Transforms}

NextCollide ==
    \/ calls < MoreCalls /\ \E o \in CollidingOps : ObservedCall(1, o)
    \/ Step(1)

SpecCollide == Init /\ [][NextCollide]_vars

\* The calls of ConversationService, each one call of the store:
\* create_conversation and add_message make their uuid (the number of the
\* call); add_message, delete_conversation and get_conversation are given
\* one of the ids made so far.  get_conversation(i) is read_json, of whose
\* result the method returns the entry of i.
create_conversation(i) ==
    UpdateOp(CONVERSATIONS_FILE, Closure("create_conversation", i, 0))
add_message(i, m) ==
    UpdateOp(CONVERSATIONS_FILE, Closure("add_message", i, m))
delete_conversation(i) ==
    UpdateOp(CONVERSATIONS_FILE, Closure("delete_conversation", i, 0))
get_conversation == ReadOp(CONVERSATIONS_FILE)

ConversationCalls ==
    {create_conversation(calls + 1), get_conversation}
    \cup {add_message(i, calls + 1) : i \in 1..calls}
    \cup {delete_conversation(i) : i \in 1..calls}

\* Concurrent callers of the conversation service.
NextConv ==
    \E c \in Callers :
        \/ calls < MoreCalls /\ \E o \in ConversationCalls : ObservedCall(c, o)
        \/ Step(c)

SpecConv == Init /\ [][NextConv]_vars

\* ensure_user(user_id, user_data) is two calls of the store, update_json
\* with update_users and then read_json, whose result's entry of user_id it
\* returns.  UserSeq[j] is the user, x the data (0 for none).
ensure_user_update(j, x) ==
    UpdateOp(USERS_FILE, Closure("ensure_user", j, x))
ensure_user_read == ReadOp(USERS_FILE)

\* c has returned from the update_json of an ensure_user and is about to
\* make its read_json.
InEnsureUser(c) ==
    /\ pc[c] = "idle"
    /\ result[c].kind = "ok"
    /\ \E j \in 1..Len(UserSeq), x \in 0..MaxVal :
           op[c] = ensure_user_update(j, x)

\* The calls of the store a run of ensure_user calls makes.
EnsureCalls == 2 * MaxCalls

\* One caller alone, calling ensure_user again and again.
NextUsers ==
    \/ /\ calls < EnsureCalls
       /\ ~InEnsureUser(1)
       /\ \E j \in 1..Len(UserSeq), x \in 0..MaxVal :
              ObservedCall(1, ensure_user_update(j, x))
    \/ InEnsureUser(1) /\ ObservedCall(1, ensure_user_read)
    \/ Step(1)

SpecUsers == Init /\ [][NextUsers]_vars

\* ================================================================ claims
\* A caller is inside its critical section from the successful flock until
\* the body of the with statement has ended.
InCS(c) == pc[c] \in {"exists", "load", "transform", "open_w", "dump"}

\* No call is in progress.
Quiescent == \A c \in Callers : pc[c] = "idle"

\* c has returned from (or raised out of) a call.
Finished(c) == pc[c] = "idle" /\ op[c].kind # "none"

HoldsNoLock(c) == \A i \in Inodes : flock[i] # c

\* C1: mutual exclusion - at no time are two callers inside critical
\* sections for the same document name.
C1_MutualExclusion ==
    \A c1, c2 \in Callers :
        (c1 # c2 /\ InCS(c1) /\ InCS(c2)) => op[c1].name # op[c2].name

\* The callers whose last call was a successful increment_counter update
\* that began when the document held {"counter": 0}.
SeededIncrements ==
    {c \in Callers :
        /\ op[c].kind = "update_json"
        /\ result[c].kind = "ok"
        /\ before[c].toks = Encode([k \in {"counter"} |-> 0]).toks}

\* C2: no lost updates - when write_json(n, {"counter": 0}) was followed by
\* N update_json(n, increment_counter) calls that all began on that content
\* and all returned, and nothing else was called, the persisted document is
\* {"counter": N}.
C2_NoLostUpdates ==
    (/\ Quiescent
     /\ SeededIncrements # {}
     /\ calls = 1 + Cardinality(SeededIncrements))
    => \A n \in Names :
           LET r == Decode(FileAt(_get_file_path(n)).toks)
           IN  /\ r.ok
               /\ r.value = [k \in {"counter"} |->
                              Cardinality(SeededIncrements)]

\* C3: a reader never observes a partially written document - whenever a
\* caller reads the document's file (the load of read_json), no other caller
\* is between the truncation and the write of a persist on that name.
C3_NoPartialRead ==
    [][\A c \in Callers :
          (pc[c] = "load" /\ pc'[c] # "load" /\ op[c].kind = "read_json")
          => \A w \in Callers :
                 ~(w # c /\ pc[w] = "dump" /\ op[w].name = op[c].name)]_vars

\* C4: while some caller is inside a critical section for a name, the lock
\* file of that name exists.
C4_LockFilePresentInCS ==
    \A c \in Callers : InCS(c) => exists(_get_lock_path(op[c].name))

\* C5: the step that completes the release of _file_lock, after a body that
\* returned as after one that raised, leaves the lock file of the name
\* absent.
C5_LockFileAbsentAfterRelease ==
    [][\A c \in Callers :
          (pc[c] = "remove" /\ pc'[c] = "idle")
          => dir'[_get_lock_path(op[c].name)] = NoInode]_vars

\* A call whose body returned and a call whose body raised have both
\* completed their release, and the lock file is absent.
C5_Witness ==
    \E c1, c2 \in Callers :
        /\ Finished(c1) /\ result[c1].kind = "ok"
        /\ Finished(c2) /\ result[c2].kind \in {KeyError, TypeError}
        /\ \A n \in Names : ~exists(_get_lock_path(n))

\* C6: timeout boundary - an acquirer whose attempts all found the lock held
\* (timeout of them) raises the lock-timeout error and never enters its
\* critical section; the error is raised only after exactly that many failed
\* attempts, and the failed acquirer holds no lock and has not touched the
\* document.
C6_TimeoutBoundary ==
    \A c \in Callers :
        /\ retry_count[c] = timeout
           => pc[c] = "flock" \/ result[c] = Raised(LockTimeout)
        /\ result[c].kind = LockTimeout
           => /\ retry_count[c] = timeout
              /\ pc[c] \in {"unlock", "remove", "idle"}
              /\ HoldsNoLock(c)
              /\ ~wrote[c]
        /\ InCS(c) => retry_count[c] < timeout

\* An acquirer has given up with the lock-timeout error while the holder is
\* still inside its critical section.
C6_Witness ==
    \E c, h \in Callers :
        /\ Finished(c) /\ result[c] = Raised(LockTimeout)
        /\ InCS(h) /\ op[h].name = op[c].name

\* C7: release on every exit path - a call that has terminated, by return or
\* by any exception, holds no lock and has closed its lock file.
C7_ReleasedOnEveryExit ==
    \A c \in Callers :
        pc[c] = "idle" => HoldsNoLock(c) /\ lock_file[c] = NoInode

\* Two calls have terminated with different errors raised inside the
\* critical section (an encoding error and a decode error).
C7_Witness ==
    \E c1, c2 \in Callers :
        /\ Finished(c1) /\ result[c1].kind = TypeError
        /\ Finished(c2) /\ result[c2].kind = JSONDecodeError

\* C8: transform failure - an update_json whose transform raised propagates
\* that exception, has written nothing (the document's file is what it was
\* when the call began, an absent one still absent), and has released the
\* lock when it terminates.
C8_TransformFailure ==
    \A c \in Callers :
        (op[c].kind = "update_json" /\ result[c].kind = KeyError)
        => /\ ~wrote[c]
           /\ FileAt(_get_file_path(op[c].name)) = before[c]
           /\ pc[c] = "idle" => /\ HoldsNoLock(c)
                                /\ lock_file[c] = NoInode
                                /\ ~exists(_get_lock_path(op[c].name))

\* An update_json on an existing document has terminated with the
\* transform's exception.
C8_Witness ==
    \E c \in Callers :
        /\ Finished(c) /\ op[c].kind = "update_json"
        /\ result[c].kind = KeyError
        /\ before[c].ino # NoInode
        /\ Decode(before[c].toks).ok

\* C9: round trip - a read_json(n) that follows a successful
\* write_json(n, v), nothing else having written n in between, returns v.
C9_RoundTrip ==
    \A c \in Callers :
        (/\ Finished(c)
         /\ op[c].kind = "read_json"
         /\ prev[c].op.kind = "write_json"
         /\ prev[c].op.name = op[c].name
         /\ prev[c].result.kind = "ok")
        => result[c] = Returned(prev[c].op.value)

\* A mapping with two keys has been written and read back.
C9_Witness ==
    \E c \in Callers :
        /\ Finished(c)
        /\ op[c].kind = "read_json"
        /\ prev[c].op.kind = "write_json"
        /\ prev[c].result.kind = "ok"
        /\ DOMAIN prev[c].op.value = Keys
        /\ result[c].kind = "ok"

\* C10: absent-document default - read_json of a name that has never been
\* written returns the empty mapping and raises nothing.
C10_AbsentDefault ==
    \A c \in Callers :
        (Finished(c) /\ op[c].kind = "read_json" /\ before[c].ino = NoInode)
        => result[c] = Returned(EmptyDoc)

\* A read_json of a never-written name has returned.
C10_Witness ==
    \E c \in Callers :
        /\ Finished(c) /\ op[c].kind = "read_json"
        /\ before[c].ino = NoInode
        /\ \A n \in Names : ~exists(_get_file_path(n))

\* The mapping a call that began on the file b loads: {} for an absent file.
LoadedFrom(b) == IF b.ino = NoInode THEN EmptyDoc ELSE Decode(b.toks).value

\* C11: update result - a successful update_json(n, f) returns f applied to
\* the mapping that was persisted when it began ({} for an absent document),
\* that mapping is what the document holds afterwards, and a read_json(n)
\* that follows immediately returns it.
C11_UpdateResult ==
    \A c \in Callers :
        LET r == Apply(op[c].transform, LoadedFrom(before[c])) IN
        /\ (op[c].kind = "update_json" /\ result[c].kind = "ok")
           => /\ r.ok
              /\ result[c] = Returned(r.value)
              /\ Decode(FileAt(_get_file_path(op[c].name)).toks)
                     = Decoded(r.value)
        /\ (/\ Finished(c)
            /\ op[c].kind = "read_json"
            /\ prev[c].op.kind = "update_json"
            /\ prev[c].op.name = op[c].name
            /\ prev[c].result.kind = "ok")
           => result[c] = prev[c].result

\* An update_json that began on an absent document has succeeded and the
\* read_json after it has returned.
C11_Witness ==
    \E c \in Callers :
        /\ Finished(c) /\ op[c].kind = "read_json" /\ calls = 2
        /\ prev[c].op.kind = "update_json"
        /\ prev[c].result = Returned([k \in {"a"} |-> 1])

\* c holds the exclusive flock it took through its open lock file.
HoldsLock(c) == lock_file[c] # NoInode /\ flock[lock_file[c]] = c

\* C12: single application of the transform - a step that runs the
\* transform is the first of its update_json call to do so and is taken
\* while the call holds the lock, at the point of the body between the
\* load and the persist, nothing having been written yet;
\* an update_json that returns has run it once.
C12_TransformOnce ==
    [][\A c \in Callers :
          /\ applied'[c] > applied[c]
             => /\ applied[c] = 0 /\ applied'[c] = 1
                /\ op[c].kind = "update_json"
                /\ HoldsLock(c)
                /\ pc[c] = "transform" /\ ~wrote[c]
          /\ (pc[c] = "remove" /\ pc'[c] = "idle"
              /\ op[c].kind = "update_json" /\ result[c].kind = "ok")
             => applied[c] = 1 /\ applied'[c] = 1]_vars

\* An update_json has returned, having run its transform on the document
\* another caller wrote.
C12_Witness ==
    \E c, w \in Callers :
        /\ c # w /\ op[w].kind = "write_json"
        /\ Finished(c) /\ op[c].kind = "update_json"
        /\ result[c].kind = "ok" /\ applied[c] = 1

\* The texts json.dump writes for the documents of the model.
ValidTexts == {Encode(d).toks : d \in DocsOver(Ints) \cup {None}}

\* A file that exists, is not empty and holds no JSON document.
Malformed(b) == b.ino # NoInode /\ b.toks # <<>> /\ b.toks \notin ValidTexts

\* C13: malformed content is surfaced - a read_json or update_json that
\* began on a file whose (non-empty) content is not JSON raises the decode
\* error; it returns no value, the empty mapping or any other.
C13_MalformedSurfaced ==
    \A c \in Callers :
        (/\ op[c].kind \in {"read_json", "update_json"}
         /\ pc[c] \in {"unlock", "remove", "idle"}
         /\ Malformed(before[c]))
        => result[c] = Raised(JSONDecodeError)

\* Both a read_json and an update_json have raised the decode error on
\* text another program wrote.
C13_Witness ==
    \E c \in Callers :
        /\ Finished(c) /\ op[c].kind = "read_json"
        /\ prev[c].op.kind = "update_json"
        /\ prev[c].result = Raised(JSONDecodeError)
        /\ before[c].toks = <<"not json">>
        /\ result[c] = Raised(JSONDecodeError)

\* C14: no repair - no step of a read_json or update_json that has failed
\* to decode changes the document's file, which stays what it was when the
\* call began, up to the return of the call; the call has opened nothing
\* for writing and has not run the transform.
C14_NoAutoRepair ==
    [][\A c \in Callers :
          (pc[c] # "idle" /\ result'[c].kind = JSONDecodeError)
          => /\ FileAt(_get_file_path(op[c].name))' = before'[c]
             /\ ~wrote'[c]
             /\ applied'[c] = 0]_vars

\* An update_json has raised the decode error on the truncated text a
\* failed write_json left.
C14_Witness ==
    \E c \in Callers :
        /\ Finished(c) /\ op[c].kind = "update_json"
        /\ result[c].kind = JSONDecodeError
        /\ prev[c].op.kind = "write_json"
        /\ prev[c].result.kind = TypeError
        /\ FileAt(_get_file_path(op[c].name)) = before[c]
        /\ before[c].toks # <<>>

\* C15: empty file - a read_json that began on an existing file of zero
\* bytes returns the empty mapping, as for an absent file, and raises
\* nothing.
C15_EmptyFileDefault ==
    \A c \in Callers :
        (/\ Finished(c) /\ op[c].kind = "read_json"
         /\ before[c].ino # NoInode /\ before[c].toks = <<>>)
        => result[c] = Returned(EmptyDoc)

\* C16: write replaces - from the step at which a write_json(n, v) has
\* succeeded to its return, the document's file decodes to exactly v,
\* whatever the file held when the call began (absent, other keys, text
\* that is not JSON).
C16_WriteReplaces ==
    [][\A c \in Callers :
          (/\ pc[c] # "idle"
           /\ op'[c].kind = "write_json"
           /\ result'[c].kind = "ok")
          => Decode(FileAt(_get_file_path(op[c].name))'.toks)
                 = Decoded(op'[c].value)]_vars

\* A write_json of a smaller mapping with another key set has returned
\* over a document that held both keys.
C16_Witness ==
    \E c \in Callers :
        /\ Finished(c) /\ op[c].kind = "write_json"
        /\ result[c].kind = "ok"
        /\ Decode(before[c].toks).ok
        /\ DOMAIN Decode(before[c].toks).value = Keys
        /\ DOMAIN op[c].value = {"a"}
        /\ Decode(FileAt(_get_file_path(op[c].name)).toks)
               = Decoded(op[c].value)

\* C17: read does not mutate - no step of a read_json, one that returns as
\* one that raises, changes the document's file: it stays what it was when
\* the call began, a document never written stays absent, and the call
\* opens nothing for writing.
C17_ReadNoMutation ==
    [][\A c \in Callers :
          (pc[c] # "idle" /\ op[c].kind = "read_json")
          => /\ FileAt(_get_file_path(op[c].name))' = before'[c]
             /\ ~wrote'[c]]_vars

\* A read_json that returned {} and then a read_json that raised the decode
\* error have both left the file as they found it.
C17_Witness ==
    \E c \in Callers :
        /\ Finished(c) /\ op[c].kind = "read_json"
        /\ result[c].kind = JSONDecodeError
        /\ prev[c].op.kind = "read_json"
        /\ prev[c].result = Returned(EmptyDoc)
        /\ FileAt(_get_file_path(op[c].name)) = before[c]

\* c is at a step of the body that tests, reads or writes the document's
\* file: os.path.exists, json.load, open(file_path, 'w'), json.dump.
TouchesFile(c) == pc[c] \in {"exists", "load", "open_w", "dump"}

\* C18: file access only inside the critical section - a caller about to
\* test, read or write a document's file holds the lock it took for that
\* call, and every step that changes a document's file is such a step of a
\* call on that name.
C18_AccessInsideCS ==
    [][/\ \A c \in Callers : TouchesFile(c) => InCS(c) /\ HoldsLock(c)
       /\ \A n \in AllNames :
              FileAt(_get_file_path(n))' # FileAt(_get_file_path(n))
              => \E c \in Callers :
                     /\ TouchesFile(c) /\ HoldsLock(c)
                     /\ op[c].name = n
                     /\ pc'[c] # pc[c]]_vars

\* A caller is writing the document under its lock while another caller
\* has found the lock held and waits.
C18_Witness ==
    \E c, w \in Callers :
        /\ pc[c] = "dump" /\ HoldsLock(c)
        /\ pc[w] = "flock" /\ retry_count[w] > 0
        /\ lock_file[w] = lock_file[c]

\* C19: bounded acquisition - a caller in the retry loop has failed at most
\* timeout attempts, and it leaves the loop, into its critical section or
\* with the lock-timeout error, however long the holder keeps the lock.
C19_BoundedAcquisition ==
    /\ [](\A c \in Callers : retry_count[c] <= timeout)
    /\ \A c \in Callers :
           (pc[c] = "flock") ~> (InCS(c) \/ result[c] = Raised(LockTimeout))

\* A caller has just given up after timeout failed attempts while the
\* holder has not yet started the body of its call.
C19_Witness ==
    \E c, h \in Callers :
        /\ pc[c] = "unlock" /\ result[c] = Raised(LockTimeout)
        /\ retry_count[c] = timeout
        /\ HoldsLock(h) /\ pc[h] = BodyStart(op[h].kind)

\* C20: independence of names - an attempt to lock a name fails only when
\* another caller holds the lock of that same name, so a lock held on
\* another name makes nobody wait (and nobody time out, a timeout being
\* timeout failed attempts).
C20_NameIndependence ==
    [][\A c \in Callers :
          retry_count'[c] > retry_count[c]
          => \E h \in Callers :
                 /\ h # c /\ HoldsLock(h)
                 /\ op[h].name = op[c].name]_vars

\* Two callers are writing two different documents at the same time, and
\* neither has had a failed attempt.
C20_Witness ==
    \E c1, c2 \in Callers :
        /\ pc[c1] = "dump" /\ pc[c2] = "dump"
        /\ op[c1].name # op[c2].name
        /\ HoldsLock(c1) /\ HoldsLock(c2)
        /\ retry_count[c1] = 0 /\ retry_count[c2] = 0

\* C21: top-level mapping - a document's file, when it holds JSON, holds an
\* object, and every read_json that returns returns a mapping, whatever
\* write_json was given and whatever a transform returned.
C21_TopLevelMapping ==
    /\ \A n \in Names :
           LET r == Decode(FileAt(_get_file_path(n)).toks)
           IN  r.ok => IsMapping(r.value)
    /\ \A c \in Callers :
           (op[c].kind = "read_json" /\ result[c].kind = "ok")
           => IsMapping(result[c].value)

\* C22: crash atomicity - when the process of a caller was terminated in
\* the middle of persisting a document, the file a later read_json finds is
\* the one the call began on (fully old) or holds the whole new text (fully
\* new), never an empty, truncated or mixed file.
C22_CrashAtomic ==
    \A c \in Callers :
        result[c].kind = ProcessKilled
        => LET now == FileAt(_get_file_path(op[c].name))
           IN  \/ now = before[c]
               \/ /\ now.ino # NoInode
                  /\ Encode(ToPersist(c)).ok
                  /\ now.toks = Encode(ToPersist(c)).toks

\* C23: idempotent release - the release step of a call that finds the lock
\* file already absent completes, raises nothing and leaves the outcome of
\* the call what the body made it; the directory is left as it was.
C23_ReleaseIdempotent ==
    [][\A c \in Callers :
          (/\ pc[c] = "remove"
           /\ ~exists(_get_lock_path(op[c].name))
           /\ pc'[c] # pc[c])
          => /\ pc'[c] = "idle"
             /\ result'[c] = result[c]
             /\ dir' = dir]_vars

\* Two calls on one name have both returned, the second after waiting for
\* the first: they shared one lock file, which nobody created again, so one
\* of the two releases found it removed by the other.
C23_Witness ==
    \E c1, c2 \in Callers :
        /\ c1 # c2 /\ calls = 2
        /\ Finished(c1) /\ Finished(c2)
        /\ op[c1].name = op[c2].name
        /\ result[c1].kind = "ok" /\ result[c2].kind = "ok"
        /\ retry_count[c2] > 0

\* The conversation i is in the mapping d: get_conversation(i) returns it
\* from a read_json that returned d, and None otherwise.
HasConversation(d, i) == IsMapping(d) /\ IdKey(i) \in DOMAIN d

\* No caller but c has called delete_conversation(i) in its last two calls.
NotDeletedByOthers(c, i) ==
    \A h \in Callers \ {c} :
        /\ op[h] # delete_conversation(i)
        /\ prev[h].op # delete_conversation(i)

\* What conversations.json holds, as read_json would decode it.
Stored(n) == Decode(FileAt(_get_file_path(n)).toks)

\* C24: conversation lifecycle - a get_conversation that follows the
\* create_conversation that made i returns the conversation, and when all
\* calls have returned the conversation is still stored, as long as nobody
\* has called delete_conversation(i), whatever the calls of other callers
\* on other ids; a get_conversation after delete_conversation(i), and one
\* of an id never made, return None.
C24_ConversationLifecycle ==
    \A c \in Callers : \A i \in Ids :
        /\ (/\ Finished(c) /\ op[c] = get_conversation
            /\ prev[c].op = create_conversation(i)
            /\ prev[c].result.kind = "ok"
            /\ NotDeletedByOthers(c, i))
           => /\ result[c].kind = "ok"
              /\ HasConversation(result[c].value, i)
        /\ (/\ Quiescent
            /\ op[c] = create_conversation(i) /\ result[c].kind = "ok"
            /\ NotDeletedByOthers(c, i))
           => /\ Stored(CONVERSATIONS_FILE).ok
              /\ HasConversation(Stored(CONVERSATIONS_FILE).value, i)
        /\ (/\ Finished(c) /\ op[c] = get_conversation
            /\ result[c].kind = "ok"
            /\ \/ i > calls
               \/ /\ prev[c].op = delete_conversation(i)
                  /\ prev[c].result.kind = "ok")
           => ~HasConversation(result[c].value, i)

\* c's last call is an add_message to the conversation i that returned.
IsAddTo(c, i) ==
    \E m \in Ids : op[c] = add_message(i, m) /\ result[c].kind = "ok"

\* The message of an add_message call.
MessageOf(o) == ClosureOf(o.transform)[3]

\* The callers whose last call is an add_message to i that returned and
\* that began when the document held i with no message.
AddersTo(i) ==
    {c \in Callers :
        /\ IsAddTo(c, i)
        /\ before[c].toks = Encode(update_conversations(EmptyDoc, i)).toks}

\* The lists that hold each message of the set ms once, in any order.
RECURSIVE ListsOf(_)
ListsOf(ms) ==
    IF ms = {} THEN {0}
    ELSE UNION {{AppendMsg(l, m) : l \in ListsOf(ms \ {m})} : m \in ms}

\* C25: message append - an add_message of a caller running alone leaves
\* the document as it was but for its message, appended to the end of the
\* list of its conversation; and when create_conversation was followed by
\* k add_message calls to that conversation only, which all returned, the
\* list holds exactly their k messages.
C25_MessageAppend ==
    \A i \in Ids :
        /\ \A c \in Callers :
               (/\ IsAddTo(c, i)
                /\ \A h \in Callers \ {c} : op[h] = NoOp)
               => Stored(CONVERSATIONS_FILE) =
                      Decoded(update_conversation(LoadedFrom(before[c]), i,
                                                  MessageOf(op[c])))
        /\ (/\ Quiescent
            /\ AddersTo(i) # {}
            /\ calls = 1 + Cardinality(AddersTo(i)))
           => /\ Stored(CONVERSATIONS_FILE).ok
              /\ HasConversation(Stored(CONVERSATIONS_FILE).value, i)
              /\ Stored(CONVERSATIONS_FILE).value[IdKey(i)]
                     \in ListsOf({MessageOf(op[c]) : c \in AddersTo(i)})

\* C26: ensure_user is idempotent - the update of ensure_user(u, x) stores
\* the record of u when u is not there and leaves users.json as it was when
\* u is there, whatever x; the read that follows returns the stored record
\* of u, which for a user already there is the one that was there before.
C26_EnsureUserIdempotent ==
    \A c \in Callers : \A j \in 1..Len(UserSeq), x \in 0..MaxVal :
        LET u == UserSeq[j]
            was == LoadedFrom(before[c])
        IN
        /\ (op[c] = ensure_user_update(j, x) /\ result[c].kind = "ok")
           => Stored(USERS_FILE) =
                  Decoded(IF u \in DOMAIN was THEN was ELSE With(was, u, x))
        /\ (/\ Finished(c) /\ op[c] = ensure_user_read
            /\ prev[c].op = ensure_user_update(j, x))
           => /\ result[c].kind = "ok"
              /\ u \in DOMAIN result[c].value
              /\ result[c].value = was
              /\ Stored(USERS_FILE) = Decoded(was)

\* An ensure_user with data has returned the record, without data, that an
\* earlier ensure_user of the same user created.
C26_Witness ==
    \E c \in Callers :
        /\ Finished(c) /\ op[c] = ensure_user_read
        /\ prev[c].op = ensure_user_update(1, 1)
        /\ result[c].kind = "ok"
        /\ result[c].value = With(EmptyDoc, UserSeq[1], 0)

\* The steps of the cleanup a call makes after its acquisition has failed:
\* the `finally` of _file_lock, entered by `raise LockTimeout`.
FailedCleanup(a) ==
    /\ result[a] = Raised(LockTimeout)
    /\ pc[a] \in {"unlock", "remove"}
    /\ pc'[a] # pc[a]

\* h is inside its critical section with its lock file in place, locked.
HolderInPlace(h) ==
    /\ InCS(h)
    /\ dir[_get_lock_path(op[h].name)] = lock_file[h]
    /\ flock[lock_file[h]] = h

\* C27: a failed acquisition does not disturb the holder - no step of the
\* cleanup of a call that gave up takes the lock file of a caller that is
\* inside its critical section for the same name out of its place, or takes
\* its lock away, so that nobody else can enter before the holder releases.
C27_FailedAcquisitionFrame ==
    [][\A a, h \in Callers :
          (/\ a # h /\ op[a].name = op[h].name
           /\ HolderInPlace(h) /\ FailedCleanup(a))
          => (dir'[_get_lock_path(op[h].name)] = lock_file[h]
              /\ flock'[lock_file[h]] = h)]_vars

\* After a caller gave up, it is inside a critical section for the name
\* together with the holder it gave up on, which is still at the end of the
\* call (its only one) that held the lock.
ThirdCallerEnters ==
    \E a, h \in Callers :
        /\ a # h /\ op[a].name = op[h].name
        /\ InCS(a) /\ InCS(h)
        /\ prev[a].result = Raised(LockTimeout)
        /\ prev[h].op = NoOp

\* The backing file of document n: whether it is there, and its text.
BackingFile(n) ==
    [there |-> exists(_get_file_path(n)),
     toks |-> FileAt(_get_file_path(n)).toks]

\* C28: no cross-document interference - no step of a call on document n
\* creates, modifies, truncates or removes the backing file of another
\* document m, "t.json" and "t.json.lock" included.
C28_NoCrossDocument ==
    [][\A c \in Callers : \A m \in CollidingNames :
          (pc[c] # "idle" /\ pc'[c] # pc[c] /\ m # op[c].name)
          => BackingFile(m)' = BackingFile(m)]_vars

\* C29: a timed-out operation has no effect on the document - a call whose
\* acquisition failed is in its cleanup or has raised to its caller, has
\* exhausted its attempts, has not opened the document for reading or
\* writing, has loaded nothing and has not invoked the transform.
C29_TimeoutNoEffect ==
    \A c \in Callers :
        result[c] = Raised(LockTimeout)
        => /\ pc[c] \in {"unlock", "remove", "idle"}
           /\ retry_count[c] = timeout
           /\ ~wrote[c]
           /\ f[c] = NoInode
           /\ data[c] = EmptyDoc
           /\ applied[c] = 0

\* An update_json has raised LockTimeout to its caller while the other
\* caller is inside its critical section for the same name.
C29_Witness ==
    \E c, h \in Callers :
        /\ Finished(c) /\ op[c].kind = "update_json"
        /\ result[c] = Raised(LockTimeout)
        /\ InCS(h) /\ op[h].name = op[c].name

\* C30: a failed persist preserves prior content - when a write_json or an
\* update_json on a document with persisted content has raised while
\* encoding what it was to persist, the file is the one the call began on,
\* so that a read_json that follows returns the old value.
C30_FailedPersistPreserves ==
    \A c \in Callers :
        (/\ Finished(c)
         /\ result[c] = Raised(TypeError)
         /\ before[c].ino # NoInode
         /\ Decode(before[c].toks).ok)
        => /\ FileAt(_get_file_path(op[c].name)) = before[c]
           /\ Stored(op[c].name) = Decoded(LoadedFrom(before[c]))

\* C31: no leftover lock at quiescence - whenever no call is in progress,
\* every started call having returned or raised, no lock file of any
\* document is in the directory.
C31_NoLeftoverLock ==
    Quiescent => \A n \in StoreNames : ~exists(_get_lock_path(n))

\* Two callers have contended for one name, one of them gave up, both
\* calls are over and no lock file is left.
C31_Witness ==
    \E a, h \in Callers :
        /\ Quiescent
        /\ a # h /\ op[a].name = op[h].name
        /\ result[a] = Raised(LockTimeout)
        /\ result[h].kind = "ok"
        /\ \A n \in StoreNames : ~exists(_get_lock_path(n))

\* c makes one flock attempt: one round of the retry loop.
Attempt(c) == pc[c] = "flock" /\ MayRetry(retry_count[c])

\* Another caller holds the lock of the name c is calling on.
HeldByAnother(c) ==
    \E h \in Callers : h # c /\ HoldsLock(h) /\ op[h].name = op[c].name

\* c leaves the round of the retry loop it is in.
Attempted(c) == pc'[c] # pc[c] \/ retry_count'[c] # retry_count[c]

\* C32: no spurious timeout - an attempt made while no other caller holds
\* the lock of the name enters the critical section, holding the lock; an
\* attempt fails only with the lock held by another caller, and a call
\* gives up only after timeout attempts that all failed so.
C32_NoSpuriousTimeout ==
    [][\A c \in Callers :
          /\ (Attempt(c) /\ Attempted(c) /\ ~HeldByAnother(c))
             => (InCS(c)' /\ HoldsLock(c)'
                 /\ retry_count'[c] = retry_count[c])
          /\ retry_count'[c] > retry_count[c] => HeldByAnother(c)
          /\ (result[c] # Raised(LockTimeout)
              /\ result'[c] = Raised(LockTimeout))
             => retry_count[c] = timeout]_vars

\* A call has entered its critical section after failed attempts, the
\* caller that held the lock having released it.
C32_Witness ==
    \E c \in Callers :
        /\ InCS(c) /\ retry_count[c] > 0
        /\ ~HeldByAnother(c)

\* The process of h was terminated inside its critical section.
Killed(h) == pc[h] = "idle" /\ result[h] = Raised(ProcessKilled)

\* a starts a call on a name whose lock file, left by a terminated holder,
\* is on disk, no other caller being in a call.
StartsOnStaleLock(a) ==
    /\ pc[a] = "open_lock"
    /\ exists(_get_lock_path(op[a].name))
    /\ \E h \in Callers \ {a} : Killed(h) /\ op[h].name = op[a].name
    /\ \A h \in Callers \ {a} : pc[h] = "idle"
    /\ calls = KillCalls

\* C33: a crashed holder does not block others - a terminated caller holds
\* no lock, and a call that starts on the stale lock file of terminated
\* holders makes no failed attempt and comes to its end, which is not a
\* lock timeout: what its body returns or raises (or its own termination).
C33_CrashedHolderFreesLock ==
    /\ [](\A h \in Callers : Killed(h) => HoldsNoLock(h))
    /\ \A a \in Callers :
          StartsOnStaleLock(a)
          ~> (/\ Finished(a)
              /\ retry_count[a] = 0
              /\ result[a] # Raised(LockTimeout))

\* The holder of the lock of a name was terminated and a write_json on
\* that name has returned, its release having removed the stale lock file.
C33_Witness ==
    \E a, h \in Callers :
        /\ a # h /\ Killed(h) /\ op[h].name = op[a].name
        /\ Finished(a) /\ result[a].kind = "ok" /\ wrote[a]
        /\ retry_count[a] = 0
        /\ ~exists(_get_lock_path(op[a].name))

\* The transform of the update_json in progress has called the store on
\* the name of the update_json itself.
Reentered ==
    /\ op[Outer].transform = reenter
    /\ op[Nested] # NoOp
    /\ op[Nested].name = op[Outer].name

\* C34: reentrant use does not deadlock - a call the transform of
\* update_json(n, f) makes on n comes to its end, and the end is a lock
\* timeout after timeout failed attempts; the update_json whose transform
\* lets it propagate comes to its end too, raises it, holds no lock and
\* has left the document as it was.
C34_ReentrantNoDeadlock ==
    /\ [](Reentered
          => /\ Finished(Nested)
                => /\ result[Nested] = Raised(LockTimeout)
                   /\ retry_count[Nested] = timeout
             /\ Finished(Outer)
                => /\ result[Outer] = Raised(LockTimeout)
                   /\ HoldsNoLock(Outer) /\ lock_file[Outer] = NoInode
                   /\ ~wrote[Outer]
                   /\ FileAt(_get_file_path(op[Outer].name)) = before[Outer])
    /\ (Reentered /\ pc[Nested] = "flock") ~> Finished(Nested)
    /\ (Reentered /\ pc[Outer] = "transform") ~> Finished(Outer)

\* An update_json on an existing document has raised the lock timeout of
\* the update_json its transform made on the same document.
C34_Witness ==
    /\ Reentered /\ Finished(Outer) /\ Finished(Nested)
    /\ op[Nested].kind = "update_json"
    /\ result[Outer] = Raised(LockTimeout)
    /\ before[Outer].ino # NoInode

\* add_item applied k times, starting from the empty mapping.
RECURSIVE FoldOf(_)
FoldOf(k) == IF k = 0 THEN EmptyDoc ELSE add_item(FoldOf(k - 1))

\* C35: update_json on an absent document - the transform of an update_json
\* that finds no document gets the empty mapping, the document is created
\* with its result, and after k update_json calls from an absent document
\* the document holds, and the k-th call returned, the fold of the k
\* transforms over the empty mapping.
C35_UpdateFromAbsent ==
    \A n \in Names :
        /\ \A c \in Callers :
              (pc[c] = "transform" /\ applied[c] = 0
               /\ before[c].ino = NoInode)
              => data[c] = EmptyDoc
        /\ (Quiescent /\ calls = 0) => ~exists(_get_file_path(n))
        /\ (Quiescent /\ calls > 0)
           => /\ exists(_get_file_path(n))
              /\ Stored(n) = Decoded(FoldOf(calls))
              /\ \E c \in Callers : result[c] = Returned(FoldOf(calls))

\* More than one update_json has returned, the first of which found no
\* document.
C35_Witness ==
    \E c \in Callers :
        /\ Quiescent /\ calls > 1
        /\ result[c] = Returned(FoldOf(calls))
        /\ prev[c].op = NoOp \/ prev[c].result = Returned(FoldOf(1))

\* c's last call is an add_message to i that returned and that found the
\* document without the conversation i.
AddedToMissing(c, i) ==
    /\ IsAddTo(c, i)
    /\ ~HasConversation(LoadedFrom(before[c]), i)

\* c's last call is a delete_conversation(i) that returned and that began
\* when the document held the conversation i.
Deleted(c, i) ==
    /\ op[c] = delete_conversation(i) /\ result[c].kind = "ok"
    /\ before[c].ino # NoInode /\ Decode(before[c].toks).ok
    /\ HasConversation(LoadedFrom(before[c]), i)

\* The last call of h, if it has made one, is an add_message.
OnlyAdds(h) ==
    op[h] = NoOp \/ \E j \in Ids, m \in Ids : op[h] = add_message(j, m)

\* C36: add_message never creates a conversation - an add_message to an id
\* the document does not hold returns and leaves the document as it was;
\* and once a delete_conversation(i) has returned, the conversation i is
\* not stored when all calls are over, whatever add_message calls the
\* other callers made together with it or after it.
C36_AddMessageNeverCreates ==
    \A i \in Ids :
        /\ \A c \in Callers :
               (/\ AddedToMissing(c, i)
                /\ \A h \in Callers \ {c} : op[h] = NoOp)
               => Stored(CONVERSATIONS_FILE) = Decoded(LoadedFrom(before[c]))
        /\ \A c \in Callers :
               (/\ Quiescent
                /\ Deleted(c, i)
                /\ \A h \in Callers \ {c} : OnlyAdds(h))
               => /\ Stored(CONVERSATIONS_FILE).ok
                  /\ ~HasConversation(Stored(CONVERSATIONS_FILE).value, i)

====
